---- MODULE Spec2Model ----
(***************************************************************************)
(* TightECS (tecs::Ecs over a tecs::ArenaAllocator), modelled at the level *)
(* of the arena's memory words.  The canonical header is the code embedded *)
(* in src/Readme.md (lines 97-901).                                        *)
(*                                                                         *)
(* Data model of the build (fixed by the "Memory footprint" test,          *)
(* src/tests/tests.cpp:64-73: sizeof(Ecs<.., 8>) == 432 holds only with a  *)
(* 4-byte `unsigned long` and 8-byte pointers):                            *)
(*   - u32 is 32 bits wide, pointers are 8 bytes, little endian;           *)
(*   - EntityHandleParts is one 32-bit word, bit 0 = alive,                *)
(*     bits 1..3 = generation, bits 4..31 = id.                            *)
(* A 32-bit word is written here as the two's complement integer with the  *)
(* same bits (a word >= 2^31 is shown negative), so that every value stays *)
(* inside the integers the model checker computes with.                    *)
(*                                                                         *)
(* The arena buffer is supplied by the caller and is not cleared by the    *)
(* library: every word the program has not written reads as `fill`, the    *)
(* buffer's initial contents, chosen in Init.                              *)
(* An access outside the buffer [ArenaBase, ArenaBase + total) is outside  *)
(* anything the program owns; the model records it in `fault` and stops.   *)
(***************************************************************************)
EXTENDS Integers, Sequences, FiniteSets, TLC

VARIABLES
    fill,            \* initial contents of every word of the caller's buffer
    total,           \* ArenaAllocator::total
    current,         \* ArenaAllocator::current
    mem,             \* the buffer: the words the program wrote, the regions it cleared
    maxEntities,     \* Ecs::maxEntities
    liveEntities,    \* Ecs::liveEntities
    nextFreeEntity,  \* Ecs::nextFreeEntity
    containers,      \* Ecs::containers
    fault,           \* an access left the buffer
    issued,          \* handles newEntity has returned so far (the caller's copies)
    last,            \* the last call: operation, arguments, outcome
    steps            \* number of calls made

vars == <<fill, total, current, mem, maxEntities, liveEntities, nextFreeEntity,
          containers, fault, issued, last, steps>>

----------------------------------------------------------------------------
(* Bounds of the model *)

\* number of calls made on one Ecs
MaxSteps == 7

\* component type ids the caller registers: 1..NumTypes
NumTypes == 2

\* the capacity the caller constructs the Ecs with is drawn from 1..MaxCapacity
MaxCapacity == 3

\* initial contents of the caller's buffer: zeroed (std::make_unique<char[]>),
\* or left as it was (new char[], a stack array): words of 1, or bytes 0x11
FillWords == {0, 1, 17 * 16843009}

----------------------------------------------------------------------------
(* Program constants and the build's sizes *)

WordBytes == 4
PtrBytes == 8
idChunkSize == 256
MaxComponentChunks == 32
componentsPerChunk == 128
ChunkBytes == 1024 * 4
MaxComponents == NumTypes + 1
ArenaBase == 2^16
ArenaSize == 2^20
WildPtr == 2^30
IdRange == 2^28

\* sizeof(T) of the component type registered under id t
CompSize(t) == IF t = 0 THEN WordBytes ELSE WordBytes * t

Types == 0 .. (MaxComponents - 1)

----------------------------------------------------------------------------
(* 32-bit words; EntityHandleParts *)

ByteOf(w, k) == (w \div (256^k)) % 256

WordOf(b0, b1, b2, b3) ==
    b0 + 256 * b1 + 65536 * b2 + 16777216 * (IF b3 >= 128 THEN b3 - 256 ELSE b3)

\* unsigned x / d and x % d of a 32-bit word x
UDiv(x, d) == IF x >= 0 THEN x \div d
              ELSE 4 * ((2^30) \div d) + ((x + 4 * ((2^30) % d)) \div d)
UMod(x, d) == IF x >= 0 THEN x % d ELSE (x + 4 * ((2^30) % d)) % d

AliveOf(w) == w % 2
GenOf(w) == (w \div 2) % 8
IdOf(w) == (w \div 16) % IdRange
HandleWord(alive, gen, id) ==
    alive + 2 * gen + 16 * (IF 2 * id >= IdRange THEN id - IdRange ELSE id)

----------------------------------------------------------------------------
(* The buffer *)

\* what a word reads as until the program writes it: 0 inside a region the
\* program cleared with memset, the buffer's initial contents elsewhere
Default(m, a) == IF \E r \in m.zeroed : r[1] <= a /\ a < r[2] THEN 0 ELSE fill

Rd(m, a) == IF a \in DOMAIN m.words THEN m.words[a] ELSE Default(m, a)

Wr(m, a, w) ==
    IF w = Default(m, a)
    THEN [m EXCEPT !.words = [x \in (DOMAIN @) \ {a} |-> @[x]]]
    ELSE [m EXCEPT !.words = [x \in (DOMAIN @) \cup {a} |-> IF x = a THEN w ELSE @[x]]]

ByteAt(m, a) == ByteOf(Rd(m, a - (a % WordBytes)), a % WordBytes)

\* a 32-bit load and store at any byte address, little endian
LoadWord(m, a) ==
    IF a % WordBytes = 0 THEN Rd(m, a)
    ELSE WordOf(ByteAt(m, a), ByteAt(m, a + 1), ByteAt(m, a + 2), ByteAt(m, a + 3))

WrByte(m, a, b) ==
    LET k == a % WordBytes
        w == Rd(m, a - k)
    IN  Wr(m, a - k, WordOf(IF k = 0 THEN b ELSE ByteOf(w, 0), IF k = 1 THEN b ELSE ByteOf(w, 1),
                            IF k = 2 THEN b ELSE ByteOf(w, 2), IF k = 3 THEN b ELSE ByteOf(w, 3)))

StoreWord(m, a, w) ==
    IF a % WordBytes = 0 THEN Wr(m, a, w)
    ELSE WrByte(WrByte(WrByte(WrByte(m, a, ByteOf(w, 0)), a + 1, ByteOf(w, 1)),
                       a + 2, ByteOf(w, 2)), a + 3, ByteOf(w, 3))

InArenaOf(tot, a) == a >= ArenaBase /\ a + WordBytes <= ArenaBase + tot
InArena(a) == InArenaOf(total, a)

(* The machine state a call works on: the buffer, the arena cursor, the       *)
(* containers, whether an access left the buffer, and the value returned.    *)
Machine(m, cur, con) == [mem |-> m, cur |-> cur, con |-> con, bad |-> FALSE, ret |-> 0]

Chk(X, a) == IF InArena(a) THEN X ELSE [X EXCEPT !.bad = TRUE]
Load(X, a) == IF InArena(a) THEN LoadWord(X.mem, a) ELSE 0
Store(X, a, w) ==
    IF InArena(a) THEN [X EXCEPT !.mem = StoreWord(@, a, w)] ELSE [X EXCEPT !.bad = TRUE]

ChkPtr(X, a) == Chk(Chk(X, a), a + WordBytes)
LoadPtr(X, a) ==
    IF InArena(a) /\ InArena(a + WordBytes)
    THEN IF LoadWord(X.mem, a + WordBytes) = 0 /\ LoadWord(X.mem, a) >= 0
         THEN LoadWord(X.mem, a) ELSE WildPtr
    ELSE WildPtr
StorePtr(X, a, p) == Store(Store(X, a, p), a + WordBytes, 0)

\* std::memset(p, 0, n)
MemZero(X, p, n) ==
    IF InArena(p) /\ InArena(p + n - WordBytes)
    THEN [X EXCEPT !.mem =
             [words |-> [x \in {y \in DOMAIN @.words : y < p \/ y >= p + n} |-> @.words[x]],
              zeroed |-> @.zeroed \cup {<<p, p + n>>}]]
    ELSE [X EXCEPT !.bad = TRUE]

\* ArenaAllocator::alloc: TECS_ASSERT expands to nothing, the cursor always moves
Alloc(X, size) == [X EXCEPT !.cur = @ + size]

----------------------------------------------------------------------------
(* Entity table *)

entities == ArenaBase

\* whether &entities[i] lies in the buffer, for a 32-bit index i
EntIdxOK(i) == i >= 0 /\ i <= (ArenaBase + total - WordBytes - entities) \div WordBytes
EntAddr(i) == entities + WordBytes * i

IsEntityAlive(m, h) == AliveOf(LoadWord(m, EntAddr(IdOf(h)))) = 1

\* a variant of isEntityHandleValid that compares the whole stored handle
IsEntityHandleSame(m, h) == IsEntityAlive(m, h) /\ LoadWord(m, EntAddr(IdOf(h))) = h

IsEntityHandleValid(m, h) ==
    /\ IsEntityAlive(m, h)
    /\ GenOf(LoadWord(m, EntAddr(IdOf(h)))) = GenOf(h)

----------------------------------------------------------------------------
(* Component containers *)

EmptyContainer ==
    [componentSize |-> 0, chunkSize |-> 0, aliveComponents |-> 0,
     freeComponentHandle |-> 0, sparseIds |-> 0, denseData |-> 0, denseEntities |-> 0]

isComponentHandleValid(handle) ==
    handle > 0 /\ handle <= componentsPerChunk * MaxComponentChunks

\* addresses of sparseIds[id / idChunkSize], denseData[handle / chunkSize] and
\* denseEntities[handle / chunkSize] of container c
SparseTop(c, id) == c.sparseIds + PtrBytes * (id \div idChunkSize)
DataTop(c, handle) == c.denseData + PtrBytes * UDiv(handle, c.chunkSize)
EntitiesTop(c, handle) == c.denseEntities + PtrBytes * UDiv(handle, c.chunkSize)

\* a variant of ensureComponentContainer that sets the container up on every call
ensureComponentContainerAgain(X, typeId, compSize) ==
    LET size == (maxEntities \div idChunkSize) + 1
        sp == X.cur
        dd == sp + PtrBytes * size
        de == dd + PtrBytes * MaxComponentChunks
        end == de + PtrBytes * MaxComponentChunks
    IN  MemZero([Alloc(X, end - sp) EXCEPT
                     !.con[typeId].componentSize = compSize,
                     !.con[typeId].chunkSize = ChunkBytes \div compSize,
                     !.con[typeId].sparseIds = sp,
                     !.con[typeId].denseData = dd,
                     !.con[typeId].denseEntities = de], sp, end - sp)

ensureComponentContainer(X, typeId, compSize) ==
    IF X.con[typeId].componentSize # 0 THEN X
    ELSE LET size == (maxEntities \div idChunkSize) + 1
             sp == X.cur
             dd == sp + PtrBytes * size
             de == dd + PtrBytes * MaxComponentChunks
             end == de + PtrBytes * MaxComponentChunks
         IN  MemZero([Alloc(X, end - sp) EXCEPT
                          !.con[typeId].componentSize = compSize,
                          !.con[typeId].chunkSize = ChunkBytes \div compSize,
                          !.con[typeId].sparseIds = sp,
                          !.con[typeId].denseData = dd,
                          !.con[typeId].denseEntities = de], sp, end - sp)

\* accessComponentData when denseData[compSparse] is null: both chunks are allocated
allocateDenseChunks(X1, t, componentHandle) ==
    LET c == X1.con[t]
        data == X1.cur
        ents == data + c.componentSize * c.chunkSize
    IN  [StorePtr(StorePtr(Alloc(X1, (ents - data) + WordBytes * c.chunkSize),
                           DataTop(c, componentHandle), data),
                  EntitiesTop(c, componentHandle), ents)
         EXCEPT !.ret = data + UMod(componentHandle, c.chunkSize) * c.componentSize]

\* a variant of accessComponentData that allocates the dense chunks on every call
accessComponentDataAlways(X, t, componentHandle) ==
    allocateDenseChunks(ChkPtr(X, DataTop(X.con[t], componentHandle)), t, componentHandle)

\* returns the component's address in ret
accessComponentData(X, t, componentHandle) ==
    IF LoadPtr(X, DataTop(X.con[t], componentHandle)) = 0
    THEN allocateDenseChunks(ChkPtr(X, DataTop(X.con[t], componentHandle)), t, componentHandle)
    ELSE [ChkPtr(X, DataTop(X.con[t], componentHandle)) EXCEPT
              !.ret = LoadPtr(X, DataTop(X.con[t], componentHandle))
                      + UMod(componentHandle, X.con[t].chunkSize) * X.con[t].componentSize]

pushDenseEntity(X, t, entity) ==
    LET alive == X.con[t].aliveComponents + 1
        c == X.con[t]
    IN  Store(ChkPtr([X EXCEPT !.con[t].aliveComponents = alive], EntitiesTop(c, alive)),
              LoadPtr(X, EntitiesTop(c, alive)) + WordBytes * UMod(alive, c.chunkSize),
              entity)

\* the next free handle is read at byte offset denseIdx of the data chunk
forwardFreeIndex(X, t) ==
    LET c == X.con[t]
        denseIdx == UMod(c.freeComponentHandle, c.chunkSize)
        at == LoadPtr(X, DataTop(c, c.freeComponentHandle)) + denseIdx
    IN  [Chk(ChkPtr(X, DataTop(c, c.freeComponentHandle)), at)
         EXCEPT !.con[t].freeComponentHandle = Load(X, at)]

\* denseEntities[sparseIdx][denseIdx] = denseEntities[last / chunkSize][last % chunkSize]
moveLastDenseEntity(X, t, freeHandle) ==
    LET c == X.con[t]
        src == LoadPtr(X, EntitiesTop(c, c.aliveComponents))
               + WordBytes * UMod(c.aliveComponents, c.chunkSize)
        dst == LoadPtr(X, EntitiesTop(c, freeHandle)) + WordBytes * UMod(freeHandle, c.chunkSize)
    IN  Store(Chk(ChkPtr(ChkPtr(X, EntitiesTop(c, freeHandle)),
                         EntitiesTop(c, c.aliveComponents)), src),
              dst, Load(X, src))

\* denseEntities[last / chunkSize][last % chunkSize] = {}
clearLastDenseEntity(X, t) ==
    LET c == X.con[t]
    IN  Store(ChkPtr(X, EntitiesTop(c, c.aliveComponents)),
              LoadPtr(X, EntitiesTop(c, c.aliveComponents))
              + WordBytes * UMod(c.aliveComponents, c.chunkSize), 0)

\* the freed component's bytes take the old head of the free list
linkFreeComponent(X, t, freeHandle) ==
    LET c == X.con[t]
    IN  [Store(ChkPtr(X, DataTop(c, freeHandle)),
               LoadPtr(X, DataTop(c, freeHandle))
               + UMod(freeHandle, c.chunkSize) * c.componentSize,
               c.freeComponentHandle)
         EXCEPT !.con[t].freeComponentHandle = freeHandle]

replaceDenseComponentFreeIndex(X, t, freeHandle) ==
    linkFreeComponent(clearLastDenseEntity(moveLastDenseEntity(X, t, freeHandle), t),
                      t, freeHandle)

\* removeComponentOfExistingEntity, from the read of the sparse entry at ea on
\* a variant of clearSparseEntry that clears the sparse entry at the slot's index
\* instead of the entity's
clearSparseEntryBySlot(X2, componentType, ea, possibleHandle) ==
    IF isComponentHandleValid(possibleHandle)
    THEN [Store(replaceDenseComponentFreeIndex(X2, componentType, possibleHandle),
                LoadPtr(X2, X2.con[componentType].sparseIds) + WordBytes * possibleHandle, 0)
          EXCEPT !.con[componentType].aliveComponents = @ - 1]
    ELSE X2

\* a variant of clearSparseEntry that frees the slot without looking at what the entry holds
clearSparseEntryAlways(X2, componentType, ea, possibleHandle) ==
    [Store(replaceDenseComponentFreeIndex(X2, componentType, possibleHandle), ea, 0)
     EXCEPT !.con[componentType].aliveComponents = @ - 1]

clearSparseEntry(X2, componentType, ea, possibleHandle) ==
    IF isComponentHandleValid(possibleHandle)
    THEN [Store(replaceDenseComponentFreeIndex(X2, componentType, possibleHandle), ea, 0)
          EXCEPT !.con[componentType].aliveComponents = @ - 1]
    ELSE X2

\* removeComponentOfExistingEntity, from the read of sparseIds[id / idChunkSize] on
removeFromSparseChunk(X1, id, componentType, chunk) ==
    IF chunk = 0 THEN X1
    ELSE clearSparseEntry(Chk(X1, chunk + WordBytes * (id % idChunkSize)), componentType,
                          chunk + WordBytes * (id % idChunkSize),
                          Load(X1, chunk + WordBytes * (id % idChunkSize)))

removeComponentOfExistingEntity(X, entityHandle, componentType) ==
    IF X.con[componentType].componentSize = 0 THEN X
    ELSE removeFromSparseChunk(
             ChkPtr(X, SparseTop(X.con[componentType], IdOf(entityHandle))),
             IdOf(entityHandle), componentType,
             LoadPtr(X, SparseTop(X.con[componentType], IdOf(entityHandle))))

\* the slot taken when the free list is not used: aliveComponents + 1
AssignNextDense(X, t, ea, entityHandle) ==
    pushDenseEntity(
        accessComponentData(Store(X, ea, X.con[t].aliveComponents + 1), t,
                            X.con[t].aliveComponents + 1),
        t, entityHandle)

\* the slot taken from the head of the free list
AssignRecycled(X, t, ea, entityHandle) ==
    pushDenseEntity(
        accessComponentData(Store(forwardFreeIndex(X, t), ea, X.con[t].freeComponentHandle),
                            t, X.con[t].freeComponentHandle),
        t, entityHandle)

Thrown == 0 - 1

\* addComponent, sparseIds[id / idChunkSize] is null: a sparse chunk is allocated
addToNewSparseChunk(X2, entityHandle, t) ==
    LET id == IdOf(entityHandle)
        fresh == X2.cur
        X3 == StorePtr(Alloc(X2, WordBytes * idChunkSize), SparseTop(X2.con[t], id), fresh)
    IN  IF isComponentHandleValid(X2.con[t].freeComponentHandle)
        THEN AssignRecycled(X3, t, fresh + WordBytes * (id % idChunkSize), entityHandle)
        ELSE AssignNextDense(X3, t, fresh + WordBytes * (id % idChunkSize), entityHandle)

\* addComponent, the sparse chunk exists: the entry at ea holds possibleHandle
addToSparseEntry(X3, entityHandle, t, ea, possibleHandle) ==
    IF isComponentHandleValid(possibleHandle)
    THEN accessComponentData(X3, t, possibleHandle)
    ELSE AssignNextDense(X3, t, ea, entityHandle)

\* addComponent, from the read of sparseIds[id / idChunkSize] on
addToContainer(X1, entityHandle, t) ==
    LET id == IdOf(entityHandle)
        top == SparseTop(X1.con[t], id)
        ea == LoadPtr(X1, top) + WordBytes * (id % idChunkSize)
    IN  IF LoadPtr(X1, top) = 0
        THEN addToNewSparseChunk(ChkPtr(X1, top), entityHandle, t)
        ELSE addToSparseEntry(Chk(ChkPtr(X1, top), ea), entityHandle, t, ea, Load(X1, ea))

\* a variant of addComponent that registers the container before it looks at the handle
addComponentRegisterFirst(X, entityHandle, t) ==
    IF ~IsEntityHandleValid(X.mem, entityHandle)
    THEN [ensureComponentContainer(X, t, CompSize(t)) EXCEPT !.ret = Thrown]
    ELSE addToContainer(ensureComponentContainer(X, t, CompSize(t)), entityHandle, t)

\* addComponent<T>, T registered as t; ret is the component's address, or Thrown
addComponent(X, entityHandle, t) ==
    IF ~IsEntityHandleValid(X.mem, entityHandle) THEN [X EXCEPT !.ret = Thrown]
    ELSE addToContainer(ensureComponentContainer(X, t, CompSize(t)), entityHandle, t)

\* getComponent, the sparse chunk exists: the entry holds possibleHandle
getFromSparseEntry(X3, t, possibleHandle) ==
    IF isComponentHandleValid(possibleHandle)
    THEN accessComponentData(X3, t, possibleHandle)
    ELSE [X3 EXCEPT !.ret = 0]

\* getComponent, from the read of sparseIds[id / idChunkSize] on
getFromContainer(X1, entityHandle, t) ==
    LET id == IdOf(entityHandle)
        top == SparseTop(X1.con[t], id)
        ea == LoadPtr(X1, top) + WordBytes * (id % idChunkSize)
    IN  IF LoadPtr(X1, top) = 0 THEN [ChkPtr(X1, top) EXCEPT !.ret = 0]
        ELSE getFromSparseEntry(Chk(ChkPtr(X1, top), ea), t, Load(X1, ea))

\* getComponent<T>; ret is the component's address, or 0 for nullptr
getComponent(X, entityHandle, t) ==
    IF ~IsEntityHandleValid(X.mem, entityHandle) THEN [X EXCEPT !.ret = 0]
    ELSE getFromContainer(ensureComponentContainer(X, t, CompSize(t)), entityHandle, t)

\* getExistingEntityComponentHandle on machine state X: the handle in ret
ExistingHandle(X, entity, componentType) ==
    LET c == X.con[componentType]
        top == SparseTop(c, entity)
        ea == LoadPtr(X, top) + WordBytes * (entity % idChunkSize)
    IN  IF c.componentSize = 0 THEN [X EXCEPT !.ret = 0]
        ELSE IF LoadPtr(X, top) = 0 THEN [ChkPtr(X, top) EXCEPT !.ret = 0]
        ELSE [Chk(ChkPtr(X, top), ea) EXCEPT !.ret = Load(X, ea)]

\* the queries, on the buffer m and the containers con (they change nothing)
getExistingEntityComponentHandle(m, con, entity, componentType) ==
    ExistingHandle(Machine(m, 0, con), entity, componentType).ret

entityHasComponent(m, con, entity, componentType) ==
    /\ IsEntityHandleValid(m, entity)
    /\ getExistingEntityComponentHandle(m, con, IdOf(entity), componentType) # 0

getComponentAmount(con, type) ==
    IF con[type].componentSize = 0 THEN 0 ELSE con[type].aliveComponents

----------------------------------------------------------------------------
(* forEach<Components...>: the visits it makes, in order.  `types` is the   *)
(* sequence of type ids of Components.                                      *)

ULess(a, b) == IF (a >= 0) = (b >= 0) THEN a < b ELSE a >= 0

\* a variant of findSmallestComponentContainer that settles for the first type
firstComponentContainer(con, types) ==
    [type |-> Head(types), count |-> getComponentAmount(con, Head(types))]

RECURSIVE findSmallestComponentContainer(_, _)
findSmallestComponentContainer(con, types) ==
    LET a == [type |-> Head(types), count |-> getComponentAmount(con, Head(types))]
    IN  IF Len(types) = 1 THEN a
        ELSE LET b == findSmallestComponentContainer(con, Tail(types))
             IN  IF ULess(a.count, b.count) THEN a ELSE b

\* accessExistingComponentData(type, entity): ret is the address
accessExistingComponentData(X, type, entity) ==
    LET c == X.con[type]
        X1 == ExistingHandle(X, entity, type)
        component == X1.ret
        top == c.denseData + PtrBytes * UDiv(component, c.chunkSize)
        X2 == ChkPtr(X1, top)
    IN  [X2 EXCEPT !.ret = LoadPtr(X2, top) + UMod(component, c.chunkSize) * c.componentSize]

\* one pass of the loop body, for dense position i of the driving container
ForEachAt(X, types, drive, i) ==
    LET c == X.con[drive]
        top == c.denseEntities + PtrBytes * (i \div c.chunkSize)
        X1 == ChkPtr(X, top)
        ea == LoadPtr(X1, top) + WordBytes * (i % c.chunkSize)
        X2 == Chk(X1, ea)
        entity == IdOf(Load(X2, ea))
        J == 1 .. Len(types)
        \* the inner loop stops at the first requested type the entity lacks
        lacks(j) == ExistingHandle(X2, entity, types[j]).ret = 0
        firstLack == IF \E j \in J : lacks(j)
                     THEN CHOOSE j \in J : lacks(j) /\ \A k \in 1 .. (j - 1) : ~lacks(k)
                     ELSE Len(types) + 1
        looked == {j \in J : j <= firstLack}
        skip == firstLack <= Len(types)
        badLook == \E j \in looked : ExistingHandle(X2, entity, types[j]).bad
        badData == \E j \in J : accessExistingComponentData(X2, types[j], entity).bad
        slotOK == EntIdxOK(entity)
    IN  IF X2.bad THEN [bad |-> TRUE, visit |-> <<>>]
        ELSE IF entity = 0 THEN [bad |-> FALSE, visit |-> <<>>]
        ELSE IF badLook THEN [bad |-> TRUE, visit |-> <<>>]
        ELSE IF skip THEN [bad |-> FALSE, visit |-> <<>>]
        ELSE IF badData \/ ~slotOK THEN [bad |-> TRUE, visit |-> <<>>]
        ELSE [bad |-> FALSE,
              visit |-> << [handle |-> LoadWord(X2.mem, EntAddr(entity)),
                            data |-> [j \in J |->
                                accessExistingComponentData(X2, types[j], entity).ret]] >>]

\* a variant of the loop that walks the dense positions from count down to i
RECURSIVE ForEachFromBack(_, _, _, _, _)
ForEachFromBack(X, types, drive, i, count) ==
    IF i > count THEN [bad |-> FALSE, visits |-> <<>>]
    ELSE LET here == ForEachAt(X, types, drive, i)
         IN  IF here.bad THEN [bad |-> TRUE, visits |-> <<>>]
             ELSE LET rest == ForEachFromBack(X, types, drive, i + 1, count)
                  IN  [bad |-> rest.bad, visits |-> rest.visits \o here.visit]

RECURSIVE ForEachFrom(_, _, _, _, _)
ForEachFrom(X, types, drive, i, count) ==
    IF i > count THEN [bad |-> FALSE, visits |-> <<>>]
    ELSE LET here == ForEachAt(X, types, drive, i)
         IN  IF here.bad THEN [bad |-> TRUE, visits |-> <<>>]
             ELSE LET rest == ForEachFrom(X, types, drive, i + 1, count)
                  IN  [bad |-> rest.bad, visits |-> here.visit \o rest.visits]

\* a count of 2^31 or more walks the top-level array out of the buffer
forEach(m, con, types) ==
    LET smallestType == findSmallestComponentContainer(con, types)
    IN  IF smallestType.count < 0 THEN [bad |-> TRUE, visits |-> <<>>]
        ELSE ForEachFrom(Machine(m, 0, con), types, smallestType.type, 1,
                         smallestType.count)

----------------------------------------------------------------------------
(* Construction and the calls *)

NoCall == [op |-> "init", h |-> 0, t |-> 0, valid |-> FALSE, had |-> FALSE, ret |-> 0]

\* Ecs::Ecs / Ecs::init over a buffer of ArenaSize bytes
Init ==
    /\ fill \in FillWords
    /\ total = ArenaSize
    /\ maxEntities = MaxCapacity
    /\ current = ArenaBase + WordBytes * (maxEntities + 1)
    /\ mem = [words |-> [a \in {} |-> 0], zeroed |-> {}]
    /\ liveEntities = 0
    /\ nextFreeEntity = 0
    /\ containers = [t \in Types |-> EmptyContainer]
    /\ fault = FALSE
    /\ issued = {}
    /\ last = NoCall
    /\ steps = 0

\* handles the caller passes: copies of handles newEntity returned
Handles == issued

CallerTypes == 1 .. NumTypes

Faulted ==
    /\ fault' = TRUE
    /\ UNCHANGED <<fill, total, current, mem, maxEntities, liveEntities, nextFreeEntity,
                   containers, issued, last, steps>>

\* the state a call leaves, from the machine state X its body ends in
Returned(X, call) ==
    /\ mem' = X.mem
    /\ current' = X.cur
    /\ containers' = X.con
    /\ last' = call
    /\ steps' = steps + 1
    /\ UNCHANGED <<fill, total, maxEntities, fault>>

\* a variant of newEntity that takes the id from the counter before it is bumped
NewEntityFromCounter ==
    /\ ~fault /\ steps < MaxSteps
    /\ LET fromFree == nextFreeEntity # 0
           newId == IF fromFree THEN nextFreeEntity ELSE liveEntities
           handle == HandleWord(1, 0, newId % IdRange)
           X == Machine(mem, current, containers)
       IN  IF (fromFree /\ ~EntIdxOK(nextFreeEntity)) \/ ~EntIdxOK(newId)
           THEN Faulted
           ELSE /\ nextFreeEntity' = IF fromFree THEN LoadWord(mem, EntAddr(nextFreeEntity))
                                     ELSE nextFreeEntity
                /\ liveEntities' = liveEntities + 1
                /\ issued' = issued \cup {handle}
                /\ Returned(Store(X, EntAddr(newId), handle),
                            [NoCall EXCEPT !.op = "newEntity", !.h = handle, !.ret = handle,
                                           !.valid = fromFree])

NewEntity ==
    /\ ~fault /\ steps < MaxSteps
    /\ LET fromFree == nextFreeEntity # 0
           newId == IF fromFree THEN nextFreeEntity ELSE liveEntities + 1
           handle == HandleWord(1, 0, newId % IdRange)
           X == Machine(mem, current, containers)
       IN  IF (fromFree /\ ~EntIdxOK(nextFreeEntity)) \/ ~EntIdxOK(newId)
           THEN Faulted
           ELSE /\ nextFreeEntity' = IF fromFree THEN LoadWord(mem, EntAddr(nextFreeEntity))
                                     ELSE nextFreeEntity
                /\ liveEntities' = liveEntities + 1
                /\ issued' = issued \cup {handle}
                /\ Returned(Store(X, EntAddr(newId), handle),
                            [NoCall EXCEPT !.op = "newEntity", !.h = handle, !.ret = handle,
                                           !.valid = fromFree])

\* the loop over every container index, 0 .. MaxComponents - 1
RemoveFromContainers(X, entityHandle) ==
    LET after[n \in 0 .. MaxComponents] ==
            IF n = 0 THEN X
            ELSE removeComponentOfExistingEntity(after[n - 1], entityHandle, n - 1)
    IN  after[MaxComponents]

\* a variant of releaseEntity that leaves the generation as it was
releaseEntityKeepGeneration(X1, entityHandle) ==
    Store(X1, EntAddr(IdOf(entityHandle)),
          HandleWord(0, GenOf(Load(X1, EntAddr(IdOf(entityHandle)))), nextFreeEntity % IdRange))

\* destroyExistingEntity after the loop: the entry joins the free list
releaseEntity(X1, entityHandle) ==
    Store(X1, EntAddr(IdOf(entityHandle)),
          HandleWord(0, (GenOf(Load(X1, EntAddr(IdOf(entityHandle)))) + 1) % 8,
                     nextFreeEntity % IdRange))

destroyExistingEntity(X, entityHandle) ==
    releaseEntity(RemoveFromContainers(X, entityHandle), entityHandle)

\* a variant of removeEntity that destroys the entry without looking at the handle
removeEntityUnchecked(X, entityHandle) == destroyExistingEntity(X, entityHandle)

removeEntity(X, entityHandle) ==
    IF IsEntityHandleValid(X.mem, entityHandle) THEN destroyExistingEntity(X, entityHandle)
    ELSE X

RemoveEntityReturn(h, valid, X1) ==
    IF X1.bad THEN Faulted
    ELSE /\ nextFreeEntity' = IF valid THEN IdOf(h) ELSE nextFreeEntity
         /\ liveEntities' = IF valid THEN liveEntities - 1 ELSE liveEntities
         /\ UNCHANGED issued
         /\ Returned(X1, [NoCall EXCEPT !.op = "removeEntity", !.h = h, !.valid = valid])

RemoveEntity(h) ==
    /\ ~fault /\ steps < MaxSteps
    /\ RemoveEntityReturn(h, IsEntityHandleValid(mem, h),
                          removeEntity(Machine(mem, current, containers), h))

ComponentCall(name, h, t, X1) ==
    IF X1.bad THEN Faulted
    ELSE /\ UNCHANGED <<nextFreeEntity, liveEntities, issued>>
         /\ Returned(X1, [op |-> name, h |-> h, t |-> t,
                          valid |-> IsEntityHandleValid(mem, h),
                          had |-> entityHasComponent(mem, containers, h, t),
                          ret |-> X1.ret])

AddComponent(h, t) ==
    /\ ~fault /\ steps < MaxSteps
    /\ ComponentCall("addComponent", h, t,
                     addComponent(Machine(mem, current, containers), h, t))

removeComponent(X, entityHandle, compTypeId) ==
    IF IsEntityHandleValid(X.mem, entityHandle)
    THEN removeComponentOfExistingEntity(X, entityHandle, compTypeId)
    ELSE X

RemoveComponent(h, t) ==
    /\ ~fault /\ steps < MaxSteps
    /\ ComponentCall("removeComponent", h, t,
                     removeComponent(Machine(mem, current, containers), h, t))

GetComponent(h, t) ==
    /\ ~fault /\ steps < MaxSteps
    /\ ComponentCall("getComponent", h, t,
                     getComponent(Machine(mem, current, containers), h, t))

Next ==
    \/ NewEntity
    \/ \E h \in Handles : RemoveEntity(h)
    \/ \E h \in Handles, t \in CallerTypes : AddComponent(h, t)
    \/ \E h \in Handles, t \in CallerTypes : RemoveComponent(h, t)
    \/ \E h \in Handles, t \in CallerTypes : GetComponent(h, t)

Spec == Init /\ [][Next]_vars

\* the same Ecs over a buffer the caller cleared (std::make_unique<char[]>)
InitZeroed == Init /\ fill = 0

SpecZeroed == InitZeroed /\ [][Next]_vars

\* bytes init takes from the arena for the table of n entities: alloc<Entity>(n + 1)
TableBytes(n) == WordBytes * (n + 1)

\* bytes the first addComponent<T1> takes from the arena: the container's three
\* top-level arrays, a sparse chunk, a dense data chunk and a dense entity chunk
FirstAddBytes(n) ==
    PtrBytes * ((n \div idChunkSize) + 1) + 2 * PtrBytes * MaxComponentChunks
    + WordBytes * idChunkSize
    + CompSize(1) * (ChunkBytes \div CompSize(1)) + WordBytes * (ChunkBytes \div CompSize(1))

\* buffer sizes a caller hands the arena, for a table of n entities: one entry
\* short of the table, the table exactly, one word short of the table and the
\* first component, and ample
ArenaSizes(n) == {TableBytes(n) - WordBytes, TableBytes(n),
                  TableBytes(n) + FirstAddBytes(n) - WordBytes, ArenaSize}

\* the maxEntities arguments a caller passes
Capacities == {0, MaxCapacity}

\* Ecs::Ecs / Ecs::init with any of these arguments, over a cleared buffer:
\* init checks neither maxEntities nor what alloc returns
InitAnyArena ==
    /\ fill = 0
    /\ maxEntities \in Capacities
    /\ total \in ArenaSizes(maxEntities)
    /\ current = Alloc(Machine([words |-> [a \in {} |-> 0], zeroed |-> {}], ArenaBase,
                               [t \in Types |-> EmptyContainer]),
                       TableBytes(maxEntities)).cur
    /\ mem = [words |-> [a \in {} |-> 0], zeroed |-> {}]
    /\ liveEntities = 0
    /\ nextFreeEntity = 0
    /\ containers = [t \in Types |-> EmptyContainer]
    /\ fault = FALSE
    /\ issued = {}
    /\ last = NoCall
    /\ steps = 0

SpecAnyArena == InitAnyArena /\ [][Next]_vars

----------------------------------------------------------------------------
(* What a caller observes in the current state *)

Valid(h) == IsEntityHandleValid(mem, h)
Has(h, t) == entityHasComponent(mem, containers, h, t)
Slot(h, t) == getExistingEntityComponentHandle(mem, containers, IdOf(h), t)

\* the type lists a forEach call is instantiated with
TypeLists == {<<t>> : t \in CallerTypes} \cup
             {<<a, b>> : a, b \in CallerTypes}

HasAll(h, types) == \A j \in 1 .. Len(types) : Has(h, types[j])

\* forEach over `types` visits exactly the valid entities that have every type, once each
VisitsExactly(types) ==
    LET r == forEach(mem, containers, types)
        visited == [i \in 1 .. Len(r.visits) |-> r.visits[i].handle]
    IN  /\ ~r.bad
        /\ \A i \in DOMAIN visited :
               /\ visited[i] \in issued
               /\ Valid(visited[i]) /\ HasAll(visited[i], types)
               /\ \A k \in DOMAIN visited : visited[k] = visited[i] => k = i
        /\ \A h \in issued :
               Valid(h) /\ HasAll(h, types) => \E i \in DOMAIN visited : visited[i] = h

\* every entity ever created has an id of the entity table, 1 .. maxEntities
InsideTable == \A h \in issued : IdOf(h) >= 1 /\ IdOf(h) <= maxEntities

\* a call returned in this step
Stepped == steps' = steps + 1

\* what getComponent<T>(h) resolves to in the current state: [bad, ret]
Resolve(h, t) == getComponent(Machine(mem, current, containers), h, t)

\* the lookup of h's sparse entry stays inside the buffer
Readable(h, t) == ~ExistingHandle(Machine(mem, current, containers), IdOf(h), t).bad

\* bytes left in the arena: base + total - current
Remaining == ArenaBase + total - current

\* byte sizes alloc is asked for: those the Ecs asks for (entity table, a
\* container's top-level arrays, sparse chunk, dense chunks) and what is left
AllocRequests ==
    {TableBytes(maxEntities), PtrBytes * ((maxEntities \div idChunkSize) + 1),
     PtrBytes * MaxComponentChunks, WordBytes * idChunkSize, ChunkBytes}
    \cup {n \in {Remaining} : n >= 0}

\* denseEntities[i / chunkSize][i % chunkSize] of type t's container, as forEach reads it
DenseEntityAt(t, i) ==
    Load(Machine(mem, current, containers),
         LoadPtr(Machine(mem, current, containers), EntitiesTop(containers[t], i))
         + WordBytes * (i % containers[t].chunkSize))

\* the link replaceDenseComponentFreeIndex stored in the bytes of freed slot s
\* of type t's container: the head of the free list before s was pushed
FreeLink(t, s) ==
    Load(Machine(mem, current, containers),
         LoadPtr(Machine(mem, current, containers), DataTop(containers[t], s))
         + UMod(s, containers[t].chunkSize) * containers[t].componentSize)

\* the free list of type t's container from slot s on, at most n slots of it
RECURSIVE FreeChainFrom(_, _, _)
FreeChainFrom(t, s, n) ==
    IF n = 0 \/ ~isComponentHandleValid(s) THEN <<>>
    ELSE <<s>> \o FreeChainFrom(t, FreeLink(t, s), n - 1)

\* the free list of type t's container, followed from freeComponentHandle
FreeChain(t) == FreeChainFrom(t, containers[t].freeComponentHandle, MaxSteps + 1)

\* every handle word a caller can pass for the reserved id 0 or an id that was
\* issued: either alive bit, any generation
AnyHandlesOfIssuedIds ==
    {HandleWord(a, g, id) : a \in {0, 1}, g \in 0 .. 7, id \in {0} \cup {IdOf(h) : h \in issued}}

\* the sizeof(T) arguments ensureComponentContainer is given
SizeArguments == {WordBytes, 2 * WordBytes, 3 * WordBytes}

\* handles a caller can hold for an id that was issued, of the first, second and last generation
HandlesOfIssuedIds == {HandleWord(1, g, IdOf(h)) : g \in {0, 1, 7}, h \in issued}

----------------------------------------------------------------------------
(* The claims *)

\* C1: after any sequence of newEntity, removeEntity, addComponent and
\* removeComponent calls, forEach<T1..Tn> invokes the visitor exactly once for
\* every valid entity that has a component of every requested type, and never
\* for an entity that lacks one.  Stated for the runs that stay inside the
\* entity table (no id above maxEntities was issued), where it already fails.
ForEachVisitsExactlyTheQualifying ==
    InsideTable => \A types \in TypeLists : VisitsExactly(types)

\* C2: a handle that was removed (it was issued, and is not valid now) is not
\* valid after any later call, and the handle newEntity returns for a reused id
\* differs in generation from every handle issued earlier for that id.
RemovedHandleStaysInvalid ==
    [][/\ \A h \in issued : ~Valid(h) => ~IsEntityHandleValid(mem', h)
       /\ (Stepped /\ last'.op = "newEntity") =>
              \A h \in issued : IdOf(h) = IdOf(last'.ret) => GenOf(h) # GenOf(last'.ret)]_vars

\* C3: newEntity never returns id 0 and never returns the id of an entity that
\* is alive when it is called.  Stated for the calls that return an id of the
\* entity table (at most maxEntities), where it already fails.
NewEntityIdNotAlive ==
    [][(Stepped /\ last'.op = "newEntity" /\ IdOf(last'.ret) <= maxEntities) =>
          /\ IdOf(last'.ret) >= 1
          /\ \A h \in issued : IsEntityAlive(mem, h) => IdOf(h) # IdOf(last'.ret)]_vars

\* C4: immediately after newEntity returns h, h is alive and
\* entityHasComponent(h, t) is false for every type id t in 0 .. MaxComponents - 1.
FreshEntityHasNoComponents ==
    last.op = "newEntity" =>
        /\ IsEntityAlive(mem, last.ret)
        /\ \A t \in Types : Readable(last.ret, t) /\ ~Has(last.ret, t)

\* C5: for every component type, two distinct valid entities that both have
\* the component are mapped to different slots and different addresses.
\* Stated for the runs that stay inside the entity table, where it already fails.
DistinctEntitiesDistinctSlots ==
    InsideTable =>
        \A t \in CallerTypes : \A h1, h2 \in issued :
            (h1 # h2 /\ Valid(h1) /\ Valid(h2) /\ Has(h1, t) /\ Has(h2, t)) =>
                Slot(h1, t) # Slot(h2, t) /\ Resolve(h1, t).ret # Resolve(h2, t).ret

\* C6: while entity h keeps its component of type t, the slot and the address
\* getComponent<t>(h) resolves to are the same after any call made on another
\* entity or another type (newEntity included).
ComponentSlotStable ==
    [][\A h \in issued : \A t \in CallerTypes :
          (/\ Stepped /\ Valid(h) /\ Has(h, t)
           /\ \/ last'.op = "newEntity"
              \/ last'.h # h
              \/ last'.op \in {"addComponent", "removeComponent", "getComponent"} /\ last'.t # t)
          => /\ IsEntityHandleValid(mem', h)
             /\ ~getComponent(Machine(mem', current', containers'), h, t).bad
             /\ getComponent(Machine(mem', current', containers'), h, t).ret = Resolve(h, t).ret
             /\ getExistingEntityComponentHandle(mem', containers', IdOf(h), t) = Slot(h, t)]_vars

\* C7: after removeComponent(e, T) on a valid entity e, entityHasComponent(e, T)
\* is false and getComponent<T>(e) returns nothing; after removeEntity(e),
\* entityHasComponent(e, t) is false for every type t.
RemovalClearsMembership ==
    /\ (last.op = "removeComponent" /\ last.valid) =>
           /\ Readable(last.h, last.t) /\ ~Has(last.h, last.t)
           /\ ~Resolve(last.h, last.t).bad /\ Resolve(last.h, last.t).ret = 0
    /\ (last.op = "removeEntity" /\ last.valid) => \A t \in Types : ~Has(last.h, t)

\* C8: getComponentAmount(t) equals the number of valid entities e with
\* entityHasComponent(e, t), and is 0 for a type whose container was never
\* initialized.
ComponentAmountCountsMembers ==
    \A t \in Types :
        /\ \A h \in issued : Valid(h) => Readable(h, t)
        /\ getComponentAmount(containers, t) = Cardinality({h \in issued : Valid(h) /\ Has(h, t)})
        /\ containers[t].componentSize = 0 => getComponentAmount(containers, t) = 0

\* C9: after addComponent<T>(e) on a valid entity e, entityHasComponent<T>(e)
\* is true and getComponent<T>(e) resolves to the component addComponent
\* returned.  Stated for the runs that stay inside the entity table, where it
\* already fails.
AddedComponentIsResolved ==
    (InsideTable /\ last.op = "addComponent" /\ last.valid) =>
        /\ Readable(last.h, last.t) /\ Has(last.h, last.t)
        /\ ~Resolve(last.h, last.t).bad /\ Resolve(last.h, last.t).ret = last.ret

\* C10: addComponent<T>(e) on an entity that already has a component of type T
\* returns the existing component and changes nothing: the buffer (sparse
\* entries, dense arrays, free-list links), the containers (counts, free-list
\* heads) and the arena cursor are as before the call.
AddExistingChangesNothing ==
    [][(Stepped /\ last'.op = "addComponent" /\ last'.had) =>
          /\ last'.ret = Resolve(last'.h, last'.t).ret
          /\ mem' = mem /\ containers' = containers /\ current' = current]_vars

\* C11: addComponent on a handle that is not valid ends in the error outcome
\* (the throw) and changes nothing: the buffer (entity table, sparse entries,
\* dense arrays), the containers (none is initialized, no count changes), the
\* arena cursor, the live-entity count and the free list are as before the call.
\* The same holds of the call on any handle of an issued id whose generation
\* or alive bit does not match the entity table.
AddToInvalidHandleThrows ==
    [][/\ (Stepped /\ last'.op = "addComponent" /\ ~last'.valid) =>
              /\ last'.ret = Thrown
              /\ mem' = mem /\ containers' = containers /\ current' = current
              /\ liveEntities' = liveEntities /\ nextFreeEntity' = nextFreeEntity
       /\ \A h \in HandlesOfIssuedIds : \A t \in CallerTypes :
              ~Valid(h) =>
                  addComponent(Machine(mem, current, containers), h, t)
                      = [Machine(mem, current, containers) EXCEPT !.ret = Thrown]]_vars

\* addComponent was called on a removed entity's handle, before any container exists
AddToInvalidHandleSeen ==
    /\ last.op = "addComponent" /\ ~last.valid /\ last.ret = Thrown
    /\ \A t \in Types : containers[t].componentSize = 0

\* C12: removeEntity on a handle that is not valid changes nothing: the buffer
\* (entity table, free-list links, every container's arrays), the containers,
\* the free-list head and the live-entity count are as before the call.  A
\* handle is not valid once it was removed, so removing it again changes
\* nothing.  The same holds of the call on any handle of an issued id whose
\* generation does not match the entity table.
RemoveInvalidEntityIsNoOp ==
    [][/\ (Stepped /\ last'.op = "removeEntity" /\ ~last'.valid) =>
              /\ mem' = mem /\ containers' = containers /\ current' = current
              /\ liveEntities' = liveEntities /\ nextFreeEntity' = nextFreeEntity
       /\ (Stepped /\ last'.op = "removeEntity" /\ last'.valid) =>
              /\ ~IsEntityHandleValid(mem', last'.h)
              /\ removeEntity(Machine(mem', current', containers'), last'.h)
                     = Machine(mem', current', containers')
       /\ \A h \in HandlesOfIssuedIds :
              ~Valid(h) => removeEntity(Machine(mem, current, containers), h)
                              = Machine(mem, current, containers)]_vars

\* removeEntity was called on a removed entity's handle while another entity
\* is alive and has a component
RemoveInvalidEntitySeen ==
    /\ last.op = "removeEntity" /\ ~last.valid
    /\ \E h \in issued, t \in CallerTypes : Valid(h) /\ Has(h, t)

\* C13: removeComponent(e, t) changes nothing (buffer, containers, arena
\* cursor, live-entity count, free list) when e is not a valid handle, when the
\* container of t was never initialized, when the sparse chunk of e's id does
\* not exist, or when e's sparse entry holds slot 0.  The sparse chunk of a
\* registered container is absent only for ids of a later chunk than the ones
\* added to, so that case is also checked on the reachable containers with the
\* chunk pointer of e's id cleared.
RemoveAbsentComponentIsNoOp ==
    [][/\ (/\ Stepped /\ last'.op = "removeComponent"
           /\ \/ ~last'.valid
              \/ containers[last'.t].componentSize = 0
              \/ LoadPtr(Machine(mem, current, containers),
                         SparseTop(containers[last'.t], IdOf(last'.h))) = 0
              \/ Slot(last'.h, last'.t) = 0) =>
              /\ mem' = mem /\ containers' = containers /\ current' = current
              /\ liveEntities' = liveEntities /\ nextFreeEntity' = nextFreeEntity
       /\ \A h \in HandlesOfIssuedIds : \A t \in CallerTypes :
              ~Valid(h) => removeComponent(Machine(mem, current, containers), h, t)
                              = Machine(mem, current, containers)
       /\ \A h \in issued : \A t \in CallerTypes :
              (Valid(h) /\ containers[t].componentSize # 0
                        /\ InArena(SparseTop(containers[t], IdOf(h)))) =>
                  LET X == StorePtr(Machine(mem, current, containers),
                                    SparseTop(containers[t], IdOf(h)), 0)
                  IN  removeComponent(X, h, t) = X]_vars

\* removeComponent was called on a valid entity without the component, whose
\* container holds another entity's component
RemoveAbsentComponentSeen ==
    /\ last.op = "removeComponent" /\ last.valid /\ ~last.had
    /\ containers[last.t].aliveComponents > 0
    /\ Slot(last.h, last.t) = 0

\* C14: removeEntity(h) on a valid handle h leaves every other valid handle
\* alive and valid, and leaves entityHasComponent(e, t) of every other entity e
\* and every type t as it was.
RemoveEntityLeavesOthers ==
    [][(Stepped /\ last'.op = "removeEntity" /\ last'.valid) =>
          \A e \in issued \ {last'.h} :
              /\ Valid(e) => IsEntityAlive(mem', e) /\ IsEntityHandleValid(mem', e)
              /\ \A t \in Types :
                     entityHasComponent(mem', containers', e, t) = Has(e, t)]_vars

\* a valid entity that had a component was removed while another entity is
\* valid and has a component of the same type
RemoveEntityLeavesOthersSeen ==
    /\ last.op = "removeEntity" /\ last.valid
    /\ \E e \in issued \ {last.h}, t \in CallerTypes :
           Valid(e) /\ Has(e, t) /\ containers[t].freeComponentHandle # 0

\* the handles of the first n entities of an Ecs on which no entity was removed
FirstHandles(n) == {HandleWord(1, 0, k) : k \in 1 .. n}

\* C15: on an Ecs on which no entity was removed (the free list is empty and
\* the handles issued are those of ids 1 .. k - 1, k - 1 the live-entity
\* count), the k-th newEntity call, 1 <= k <= maxEntities, succeeds and
\* returns the handle with id k, generation 0 and alive = 1, which is then
\* valid; and every call but removeEntity leaves the Ecs such.
FreshEntitiesCountUp ==
    [][(nextFreeEntity = 0 /\ issued = FirstHandles(liveEntities)
                          /\ liveEntities + 1 <= maxEntities) =>
          /\ EntIdxOK(liveEntities + 1)
          /\ (Stepped /\ last'.op = "newEntity") =>
                 /\ last'.ret = HandleWord(1, 0, liveEntities + 1)
                 /\ IdOf(last'.ret) = liveEntities + 1
                 /\ GenOf(last'.ret) = 0 /\ AliveOf(last'.ret) = 1
                 /\ IsEntityHandleValid(mem', last'.ret)
          /\ (Stepped /\ last'.op # "removeEntity") =>
                 nextFreeEntity' = 0 /\ issued' = FirstHandles(liveEntities')]_vars

\* the last entity of the table was created, no entity having been removed
FreshEntitiesCountUpSeen ==
    /\ last.op = "newEntity" /\ last.ret = HandleWord(1, 0, maxEntities)
    /\ nextFreeEntity = 0 /\ liveEntities = maxEntities
    /\ issued = FirstHandles(maxEntities)

\* C16: when maxEntities entities are alive (ids 1 .. maxEntities, the free
\* list empty), the next newEntity call fails: the handle it returns, if any,
\* is not valid, and no word of the buffer at or after entity index
\* maxEntities + 1 is written.
NewEntityAtCapacityFails ==
    [][(/\ nextFreeEntity = 0 /\ liveEntities = maxEntities
        /\ issued = FirstHandles(maxEntities)
        /\ Stepped /\ last'.op = "newEntity") =>
          /\ ~IsEntityHandleValid(mem', last'.ret)
          /\ LoadWord(mem', EntAddr(maxEntities + 1)) = LoadWord(mem, EntAddr(maxEntities + 1))
          /\ mem' = mem]_vars

\* the visits forEach<types> makes hand the visitor a valid handle newEntity
\* returned and, for each requested type in order, the address getComponent
\* resolves for that handle
VisitsMatchGetComponent(types) ==
    LET r == forEach(mem, containers, types)
    IN  \A i \in 1 .. Len(r.visits) :
            /\ r.visits[i].handle \in issued
            /\ Valid(r.visits[i].handle)
            /\ Len(r.visits[i].data) = Len(types)
            /\ \A j \in 1 .. Len(types) :
                   /\ ~Resolve(r.visits[i].handle, types[j]).bad
                   /\ Resolve(r.visits[i].handle, types[j]).ret # 0
                   /\ r.visits[i].data[j] = Resolve(r.visits[i].handle, types[j]).ret

\* C17: every visitor invocation made by forEach<T1..Tn> receives the current
\* valid handle of the visited entity, equal to the handle newEntity returned
\* for it, and, in type-list order, the components getComponent<Ti> resolves
\* for that entity.
ForEachHandsHandleAndComponents ==
    \A types \in TypeLists : VisitsMatchGetComponent(types)

\* C18: in every reachable state base <= cursor <= base + total, and an
\* allocation request that would move the cursor past base + total leaves the
\* cursor where it is.  Stated for an Ecs of at least one entity whose entity
\* table fits in the buffer, where it already fails.
ArenaCursorInBounds ==
    (maxEntities >= 1 /\ TableBytes(maxEntities) <= total) =>
        /\ ArenaBase <= current /\ current <= ArenaBase + total
        /\ \A size \in AllocRequests :
               current + size > ArenaBase + total =>
                   Alloc(Machine(mem, current, containers), size).cur = current

\* C19: alloc fails, leaving the cursor where it is, exactly when the size
\* requested exceeds the bytes left; a request of exactly the bytes left
\* succeeds and moves the cursor to base + total.
AllocFailsExactlyOnOverflow ==
    \A size \in AllocRequests :
        LET X == Alloc(Machine(mem, current, containers), size)
        IN  /\ size > Remaining => X.cur = current
            /\ size <= Remaining => X.cur = current + size
            /\ size = Remaining => X.cur = ArenaBase + total

\* C20: an Ecs is never constructed with maxEntities = 0, nor over an arena
\* its entity table does not fit in.
ConstructedEcsHasTable ==
    /\ maxEntities >= 1
    /\ TableBytes(maxEntities) <= total

\* C21: newEntity leaves the generation of the slot it uses unchanged: the
\* handle it returns, and the slot after the call, carry the generation the
\* slot had before the call (the one its last removal left, 0 for a slot never
\* used).  Stated for the calls that return an id of the entity table.
NewEntityKeepsGeneration ==
    [][(Stepped /\ last'.op = "newEntity" /\ IdOf(last'.ret) <= maxEntities) =>
          /\ GenOf(last'.ret) = GenOf(LoadWord(mem, EntAddr(IdOf(last'.ret))))
          /\ GenOf(LoadWord(mem', EntAddr(IdOf(last'.ret))))
                 = GenOf(LoadWord(mem, EntAddr(IdOf(last'.ret))))]_vars

\* C22: for every initialized container, positions 1 .. aliveComponents of
\* the dense entity array hold exactly the entities that have the component
\* now, each exactly once: no position holds id 0 or an entity lacking the
\* component, and no entity having it is missing.  Stated for the runs that
\* stay inside the entity table, where it already fails.
DenseArrayHoldsTheMembers ==
    InsideTable =>
        \A t \in CallerTypes :
            containers[t].componentSize # 0 =>
                LET n == containers[t].aliveComponents
                IN  /\ n >= 0
                    /\ \A i \in 1 .. n :
                           /\ IdOf(DenseEntityAt(t, i)) # 0
                           /\ DenseEntityAt(t, i) \in issued
                           /\ Valid(DenseEntityAt(t, i)) /\ Has(DenseEntityAt(t, i), t)
                           /\ \A k \in 1 .. n : DenseEntityAt(t, k) = DenseEntityAt(t, i) => k = i
                    /\ \A h \in issued :
                           Valid(h) /\ Has(h, t) => \E i \in 1 .. n : DenseEntityAt(t, i) = h

\* forEach<types> walks the container of a requested type whose component
\* amount no requested type is below, and makes at most that many visits
DrivesSmallest(types) ==
    LET d == findSmallestComponentContainer(containers, types)
        r == forEach(mem, containers, types)
    IN  /\ \E j \in 1 .. Len(types) : types[j] = d.type
        /\ d.count = getComponentAmount(containers, d.type)
        /\ \A j \in 1 .. Len(types) :
               ~ULess(getComponentAmount(containers, types[j]), d.count)
        /\ \A j \in 1 .. Len(types) :
               ~ULess(getComponentAmount(containers, types[j]), Len(r.visits))

\* C23: forEach<T1..Tn> walks the dense array of a requested container whose
\* aliveComponents is minimal among the requested types (the counts compared
\* as the unsigned values they are), so it examines, and visits, at most as
\* many entries as the smallest getComponentAmount among T1..Tn.
ForEachDrivesSmallestContainer ==
    \A types \in TypeLists : DrivesSmallest(types)

\* forEach<T1, T2> makes a visit where T2 has fewer components than T1
ForEachDrivesSmallestContainerSeen ==
    \E a, b \in CallerTypes :
        /\ getComponentAmount(containers, b) >= 1
        /\ getComponentAmount(containers, b) < getComponentAmount(containers, a)
        /\ findSmallestComponentContainer(containers, <<a, b>>).type = b
        /\ Len(forEach(mem, containers, <<a, b>>).visits) >= 1

\* the address of denseEntities[i / chunkSize][i % chunkSize] of type t's container
DensePositionAddr(t, i) ==
    LoadPtr(Machine(mem, current, containers), EntitiesTop(containers[t], i))
    + WordBytes * (i % containers[t].chunkSize)

\* the buffer with dense position i of type t's container holding the null entity
WithNullEntityAt(t, i) ==
    IF InArena(DensePositionAddr(t, i)) THEN StoreWord(mem, DensePositionAddr(t, i), 0) ELSE mem

\* the dense positions of the driving container forEach<types> visits over
\* the buffer m: those whose entity id is not 0 and has a slot of every
\* requested type
VisitedPositions(m, types) ==
    LET d == findSmallestComponentContainer(containers, types)
    IN  {i \in 1 .. d.count :
            /\ IdOf(LoadWord(m, DensePositionAddr(d.type, i))) # 0
            /\ \A j \in 1 .. Len(types) :
                   getExistingEntityComponentHandle(m, containers,
                       IdOf(LoadWord(m, DensePositionAddr(d.type, i))), types[j]) # 0}

\* the visits of a forEach call over the buffer m that stays inside it are
\* those of VisitedPositions, one each, in ascending order of position
VisitsAscend(m, types) ==
    LET d == findSmallestComponentContainer(containers, types)
        r == forEach(m, containers, types)
        P == VisitedPositions(m, types)
    IN  ~r.bad =>
            /\ Len(r.visits) = Cardinality(P)
            /\ \A i \in P :
                   r.visits[Cardinality({k \in P : k <= i})].handle
                       = LoadWord(m, EntAddr(IdOf(LoadWord(m, DensePositionAddr(d.type, i)))))

\* C24: within one forEach call the visitor invocations happen in ascending
\* dense-position order, 1 up to aliveComponents, of the driving container,
\* the positions whose entity id is 0 being skipped.  The calls made leave no
\* null entity below aliveComponents, so the skip is also checked on the
\* reachable buffers with the first dense position of a requested container
\* holding the null entity.
ForEachVisitsInDenseOrder ==
    \A types \in TypeLists :
        /\ VisitsAscend(mem, types)
        /\ VisitsAscend(WithNullEntityAt(types[1], 1), types)

\* forEach<T> visits two entities, and still visits the second with the
\* null entity at the first dense position
ForEachVisitsInDenseOrderSeen ==
    \E t \in CallerTypes :
        /\ ~forEach(mem, containers, <<t>>).bad
        /\ Len(forEach(mem, containers, <<t>>).visits) >= 2
        /\ forEach(mem, containers, <<t>>).visits[1].handle
               # forEach(mem, containers, <<t>>).visits[2].handle
        /\ ~forEach(WithNullEntityAt(t, 1), containers, <<t>>).bad
        /\ Len(forEach(WithNullEntityAt(t, 1), containers, <<t>>).visits)
               = Len(forEach(mem, containers, <<t>>).visits) - 1
        /\ forEach(WithNullEntityAt(t, 1), containers, <<t>>).visits[1].handle
               = forEach(mem, containers, <<t>>).visits[2].handle

\* C25: when addComponent assigns a slot to a valid entity that lacks the
\* component, the slot is the head of the container's free list whenever that
\* list is not empty, whether the entity's sparse chunk is allocated by the
\* call or exists with entry 0, and is aliveComponents + 1 only when the free
\* list is empty.  Stated for the runs that stay inside the entity table.
AddComponentRecyclesFirst ==
    [][(InsideTable /\ Stepped /\ last'.op = "addComponent" /\ last'.valid /\ ~last'.had) =>
          getExistingEntityComponentHandle(mem', containers', IdOf(last'.h), last'.t)
              = IF containers[last'.t].freeComponentHandle # 0
                THEN containers[last'.t].freeComponentHandle
                ELSE containers[last'.t].aliveComponents + 1]_vars

\* C26: the free list of every initialized container, followed from
\* freeComponentHandle, is a finite chain of distinct slots none of which is
\* assigned to an entity that has the component, and popping it
\* (forwardFreeIndex) makes the head the slot that was head before the popped
\* slot was pushed.  Stated for the runs that stay inside the entity table.
FreeListIsChainOfReleasedSlots ==
    InsideTable =>
        \A t \in CallerTypes :
            containers[t].componentSize # 0 =>
                /\ Len(FreeChain(t)) <= MaxSteps
                /\ \A i, k \in 1 .. Len(FreeChain(t)) :
                       FreeChain(t)[i] = FreeChain(t)[k] => i = k
                /\ \A h \in issued :
                       Valid(h) /\ Has(h, t) =>
                           \A i \in 1 .. Len(FreeChain(t)) : FreeChain(t)[i] # Slot(h, t)
                /\ isComponentHandleValid(containers[t].freeComponentHandle) =>
                       /\ ~forwardFreeIndex(Machine(mem, current, containers), t).bad
                       /\ forwardFreeIndex(Machine(mem, current, containers), t)
                              .con[t].freeComponentHandle
                          = FreeLink(t, containers[t].freeComponentHandle)

\* C27: the entity free list is LIFO and 0-terminated.  newEntity on a
\* non-empty list returns the id at its head and makes the head the id that
\* was head when that entity was removed (the id field its slot keeps), so
\* ids a, b removed in that order come back as b, a; on an empty list
\* (head 0) it returns an id above every id issued so far.  Stated for the
\* runs that stay inside the entity table.
EntityFreeListIsLifo ==
    [][(InsideTable /\ Stepped /\ last'.op = "newEntity") =>
          IF nextFreeEntity # 0
          THEN /\ IdOf(last'.ret) = nextFreeEntity
               /\ nextFreeEntity' = IdOf(LoadWord(mem, EntAddr(nextFreeEntity)))
          ELSE /\ nextFreeEntity' = 0
               /\ \A h \in issued : IdOf(h) < IdOf(last'.ret)]_vars

\* C28: removeEntity on a valid handle sets the slot's alive bit to 0 and its
\* generation to (old generation + 1) mod 8, the old generation being the
\* handle's.  The slot of a valid handle the calls made can produce has
\* generation 0, so the other generations, 7 included, are checked on the
\* reachable buffers with the slot and the handle of a valid entity set to
\* that generation.
RemoveEntityBumpsGeneration ==
    /\ (last.op = "removeEntity" /\ last.valid) =>
           /\ AliveOf(LoadWord(mem, EntAddr(IdOf(last.h)))) = 0
           /\ GenOf(LoadWord(mem, EntAddr(IdOf(last.h)))) = (GenOf(last.h) + 1) % 8
    /\ \A h \in issued : \A g \in 0 .. 7 :
           (Valid(h) /\ IdOf(h) <= maxEntities) =>
               LET hg == HandleWord(1, g, IdOf(h))
                   Y == removeEntity(Machine(StoreWord(mem, EntAddr(IdOf(h)), hg),
                                             current, containers), hg)
               IN  ~Y.bad =>
                       /\ AliveOf(LoadWord(Y.mem, EntAddr(IdOf(h)))) = 0
                       /\ GenOf(LoadWord(Y.mem, EntAddr(IdOf(h)))) = (g + 1) % 8

\* a valid entity was removed: its slot is dead, with generation 1
RemoveEntityBumpsGenerationSeen ==
    /\ last.op = "removeEntity" /\ last.valid
    /\ AliveOf(LoadWord(mem, EntAddr(IdOf(last.h)))) = 0
    /\ GenOf(LoadWord(mem, EntAddr(IdOf(last.h)))) = 1

\* C29: isEntityHandleValid(h) is true exactly when the slot at h.id is alive
\* and its stored generation equals h.generation; isEntityAlive(h) is the
\* slot's alive bit whatever h.generation (and h.alive) is; so
\* isEntityHandleValid(h) implies isEntityAlive(h).
ValidIsAliveAndSameGeneration ==
    \A h \in AnyHandlesOfIssuedIds :
        LET slot == LoadWord(mem, EntAddr(IdOf(h)))
        IN  /\ IsEntityHandleValid(mem, h) = (slot % 2 = 1 /\ GenOf(slot) = GenOf(h))
            /\ IsEntityAlive(mem, h) = (slot % 2 = 1)
            /\ IsEntityHandleValid(mem, h) => IsEntityAlive(mem, h)

\* a handle of a live entity is passed with another generation and with its
\* alive bit clear: the first is alive but not valid, the second is valid
ValidIsAliveAndSameGenerationSeen ==
    \E h \in issued :
        /\ Valid(h)
        /\ IsEntityAlive(mem, HandleWord(1, 7, IdOf(h)))
        /\ ~IsEntityHandleValid(mem, HandleWord(1, 7, IdOf(h)))
        /\ IsEntityHandleValid(mem, HandleWord(0, GenOf(h), IdOf(h)))
        /\ \E k \in issued : ~IsEntityAlive(mem, k)

\* C30: ensureComponentContainer is idempotent per type.  On a container not
\* yet initialized it fixes componentSize and chunkSize and allocates the
\* three top-level arrays at the cursor; on an initialized container, with
\* any size argument, it leaves the containers, the arena cursor and the
\* buffer unchanged, also right after the first call.
EnsureContainerIsIdempotent ==
    \A t \in CallerTypes : \A size, other \in SizeArguments :
        LET X == Machine(mem, current, containers)
            X1 == ensureComponentContainer(X, t, size)
            tops == PtrBytes * ((maxEntities \div idChunkSize) + 1 + 2 * MaxComponentChunks)
        IN  IF containers[t].componentSize # 0
            THEN X1 = X
            ELSE ~X1.bad =>
                     /\ X1.con[t].componentSize = size
                     /\ X1.con[t].chunkSize = ChunkBytes \div size
                     /\ X1.con[t].sparseIds = current
                     /\ X1.con[t].denseEntities + PtrBytes * MaxComponentChunks = X1.cur
                     /\ X1.cur = current + tops
                     /\ \A u \in Types \ {t} : X1.con[u] = containers[u]
                     /\ ensureComponentContainer(X1, t, other) = X1

\* addComponent<T> was called on an entity that had the component, one
\* container being initialized and another not
EnsureContainerIsIdempotentSeen ==
    /\ last.op = "addComponent" /\ last.valid /\ last.had
    /\ containers[last.t].componentSize = CompSize(last.t)
    /\ \E u \in CallerTypes : containers[u].componentSize = 0

\* sparseIds[id / idChunkSize] of type t's container, in buffer m
SparseChunkOf(m, con, t, id) == LoadPtr(Machine(m, 0, con), SparseTop(con[t], id))

\* C31: when addComponent allocates a new sparse chunk for an entity-id range
\* (the container had none for the entity's id before the call), every entry of
\* that chunk other than the one being assigned reads as 0 after the call,
\* whatever bytes the buffer held before.
NewSparseChunkReadsZero ==
    [][\A t \in CallerTypes :
          (/\ Stepped /\ last'.op = "addComponent" /\ last'.valid /\ last'.t = t
           /\ \/ containers[t].componentSize = 0
              \/ SparseChunkOf(mem, containers, t, IdOf(last'.h)) = 0)
          => /\ SparseChunkOf(mem', containers', t, IdOf(last'.h)) # 0
             /\ \A i \in 0 .. (idChunkSize - 1) :
                    i # IdOf(last'.h) % idChunkSize =>
                        LoadWord(mem', SparseChunkOf(mem', containers', t, IdOf(last'.h))
                                       + WordBytes * i) = 0]_vars

\* Ecs::init(ArenaAllocator(memory, size), n) over the buffer m, which may hold
\* what an earlier Ecs left in it: the allocator starts at the base of the
\* buffer, the entity table is taken from it and containers = {}
init(m, n) ==
    Alloc(Machine(m, ArenaBase, [t \in Types |-> EmptyContainer]), TableBytes(n))

\* C32: after init, on a new buffer or again over the buffer of the Ecs in any
\* reachable state, the Ecs is empty: every entity slot has alive = 0 and
\* generation = 0, no handle issued before is alive or valid, and
\* getComponentAmount is 0 for every type.
InitLeavesEmptyEcs ==
    /\ \A i \in 0 .. maxEntities :
           /\ AliveOf(LoadWord(init(mem, maxEntities).mem, EntAddr(i))) = 0
           /\ GenOf(LoadWord(init(mem, maxEntities).mem, EntAddr(i))) = 0
    /\ \A h \in issued :
           /\ ~IsEntityAlive(init(mem, maxEntities).mem, h)
           /\ ~IsEntityHandleValid(init(mem, maxEntities).mem, h)
    /\ \A t \in Types : getComponentAmount(init(mem, maxEntities).con, t) = 0

\* the memory regions [lo, hi) the Ecs holds in buffer m with containers con:
\* the entity table, each initialized container's three top-level arrays, and
\* every sparse chunk, dense data chunk and dense entity chunk whose pointer in
\* those arrays is not null
ContainerStructures(m, con, t) ==
    LET c == con[t]
        X == Machine(m, 0, con)
    IN  {[what |-> <<"sparseIds", t, 0>>, lo |-> c.sparseIds,
          hi |-> c.sparseIds + PtrBytes * ((maxEntities \div idChunkSize) + 1)],
         [what |-> <<"denseData", t, 0>>, lo |-> c.denseData,
          hi |-> c.denseData + PtrBytes * MaxComponentChunks],
         [what |-> <<"denseEntities", t, 0>>, lo |-> c.denseEntities,
          hi |-> c.denseEntities + PtrBytes * MaxComponentChunks]}
        \cup {[what |-> <<"sparse chunk", t, j>>, lo |-> LoadPtr(X, c.sparseIds + PtrBytes * j),
               hi |-> LoadPtr(X, c.sparseIds + PtrBytes * j) + WordBytes * idChunkSize] :
              j \in {k \in 0 .. (maxEntities \div idChunkSize) :
                         LoadPtr(X, c.sparseIds + PtrBytes * k) # 0}}
        \cup {[what |-> <<"data chunk", t, j>>, lo |-> LoadPtr(X, c.denseData + PtrBytes * j),
               hi |-> LoadPtr(X, c.denseData + PtrBytes * j) + c.componentSize * c.chunkSize] :
              j \in {k \in 0 .. (MaxComponentChunks - 1) :
                         LoadPtr(X, c.denseData + PtrBytes * k) # 0}}
        \cup {[what |-> <<"entity chunk", t, j>>, lo |-> LoadPtr(X, c.denseEntities + PtrBytes * j),
               hi |-> LoadPtr(X, c.denseEntities + PtrBytes * j) + WordBytes * c.chunkSize] :
              j \in {k \in 0 .. (MaxComponentChunks - 1) :
                         LoadPtr(X, c.denseEntities + PtrBytes * k) # 0}}

\* the entries of the entity table in use: 0 .. maxEntities, and up to the
\* largest id newEntity has returned
TableEntries ==
    1 + CHOOSE n \in {maxEntities} \cup {IdOf(h) : h \in issued} :
            \A k \in {maxEntities} \cup {IdOf(h) : h \in issued} : k <= n

Structures(m, con) ==
    {[what |-> <<"entities", 0, 0>>, lo |-> entities, hi |-> entities + WordBytes * TableEntries]}
    \cup UNION {ContainerStructures(m, con, t) : t \in {u \in Types : con[u].componentSize # 0}}

\* C33: the arena cursor never decreases, and no two structures of the Ecs
\* (entity table, top-level arrays, sparse chunks, dense chunks) overlap in
\* memory.
ArenaRegionsDisjoint ==
    [][/\ current' >= current
       /\ \A r1, r2 \in Structures(mem', containers') :
              r1 # r2 => (r1.hi <= r2.lo \/ r2.hi <= r1.lo)]_vars

\* the indices j < n at which the array of n pointers at address top holds a
\* pointer that is not null.  ensureComponentContainer cleared the array with
\* memset, so these are the pointers with a word that was written since and
\* is not 0
NonNull(m, top, n) ==
    {(a - top) \div PtrBytes :
         a \in {x \in DOMAIN m.words : x >= top /\ x < top + PtrBytes * n /\ m.words[x] # 0}}

\* the chunks of type t's container that exist in buffer m: the sparse chunks,
\* dense data chunks and dense entity chunks its top-level arrays point to
ChunksOf(m, con, t) ==
    IF con[t].componentSize = 0
    THEN [registered |-> FALSE, sparse |-> {}, data |-> {}, ents |-> {}]
    ELSE [registered |-> TRUE,
          sparse |-> NonNull(m, con[t].sparseIds, (maxEntities \div idChunkSize) + 1),
          data |-> NonNull(m, con[t].denseData, MaxComponentChunks),
          ents |-> NonNull(m, con[t].denseEntities, MaxComponentChunks)]

\* the bytes alloc is asked for to make the top-level arrays of a container of
\* type t and the chunks k
BytesOf(con, t, k) ==
    IF ~k.registered THEN 0
    ELSE PtrBytes * ((maxEntities \div idChunkSize) + 1) + 2 * PtrBytes * MaxComponentChunks
         + WordBytes * idChunkSize * Cardinality(k.sparse)
         + con[t].componentSize * con[t].chunkSize * Cardinality(k.data)
         + WordBytes * con[t].chunkSize * Cardinality(k.ents)

\* the bytes of the arrays and chunks of the containers of types 0 .. n - 1
RECURSIVE ContainerBytes(_, _, _)
ContainerBytes(m, con, n) ==
    IF n = 0 THEN 0
    ELSE BytesOf(con, n - 1, ChunksOf(m, con, n - 1)) + ContainerBytes(m, con, n - 1)

\* C34: each sparse chunk and each dense chunk of a container is allocated at
\* most once: a chunk that exists keeps existing, the arena cursor never lies
\* further from the entity table than the bytes of the arrays and chunks that
\* exist, and a call after which no container has an array or chunk it did not
\* have before (a repeated add/remove cycle over the same entities) leaves the
\* cursor where it was.
ChunksAllocatedOnce ==
    [][Stepped =>
          /\ \A t \in Types :
                 LET before == ChunksOf(mem, containers, t)
                     after == ChunksOf(mem', containers', t)
                 IN  /\ before.registered => after.registered
                     /\ before.sparse \subseteq after.sparse
                     /\ before.data \subseteq after.data
                     /\ before.ents \subseteq after.ents
          /\ current' <= entities + TableBytes(maxEntities)
                          + ContainerBytes(mem', containers', MaxComponents)
          /\ (\A t \in Types : ChunksOf(mem', containers', t) = ChunksOf(mem, containers, t))
                 => current' = current]_vars

ChunksAllocatedOnceSeen ==
    /\ last.op = "addComponent" /\ last.valid /\ ~last.had /\ last.t = 1
    /\ containers[1].freeComponentHandle # 0
    /\ current = entities + TableBytes(maxEntities) + FirstAddBytes(maxEntities)

\* C35: getComponent<T>(e) is a pure query: for any handle and any type,
\* including a type no entity ever received, the call leaves the arena cursor,
\* the containers (their initialization state included), the buffer, the
\* live-entity count and the entity free list as they were.
GetComponentChangesNothing ==
    [][(Stepped /\ last'.op = "getComponent") =>
          /\ current' = current /\ containers' = containers /\ mem' = mem
          /\ liveEntities' = liveEntities /\ nextFreeEntity' = nextFreeEntity]_vars

\* the containers when type t's container holds n components (slots 1 .. n are
\* taken, as after n addComponent calls on n entities)
WithAliveComponents(con, t, n) == [con EXCEPT ![t].aliveComponents = n]

\* entityHasComponent<T>(h) and getComponent<T>(h) give the same answer in
\* machine state X
QueriesAgree(X, h, t) ==
    entityHasComponent(X.mem, X.con, h, t) <=> (getComponent(X, h, t).ret # 0)

\* C36: for every valid entity e and type T, entityHasComponent<T>(e) is true if
\* and only if getComponent<T>(e) returns a component, whatever slot number the
\* entity was assigned: in every reachable state, and after addComponent<T>(e)
\* when T's container already holds componentsPerChunk * MaxComponentChunks
\* components, so that e is assigned the next slot.
HasAgreesWithGetComponent ==
    \A h \in issued : \A t \in CallerTypes :
        Valid(h) =>
            /\ QueriesAgree(Machine(mem, current, containers), h, t)
            /\ (containers[t].componentSize # 0 /\ ~Has(h, t)) =>
                   LET X == addComponent(
                                Machine(mem, current,
                                        WithAliveComponents(containers, t,
                                            componentsPerChunk * MaxComponentChunks)),
                                h, t)
                   IN  ~X.bad => QueriesAgree(X, h, t)

\* the entity slots entities[0 .. maxEntities] whose alive bit is 1
AliveSlots == {i \in 0 .. maxEntities : AliveOf(LoadWord(mem, EntAddr(i))) = 1}

\* C37: in every reachable state liveEntities equals the number of entity slots
\* whose alive bit is 1, and 0 <= liveEntities <= maxEntities.  Stated for the
\* runs that stay inside the entity table, where it already fails.
LiveEntitiesCountsAliveSlots ==
    InsideTable =>
        /\ liveEntities = Cardinality(AliveSlots)
        /\ 0 <= liveEntities /\ liveEntities <= maxEntities

\* slot s of type t's container is one the top-level dense arrays have an entry
\* for, and in X the dense chunks of that entry are allocated
SlotInAllocatedChunk(X, t, s) ==
    /\ s >= 1 /\ UDiv(s, X.con[t].chunkSize) < MaxComponentChunks
    /\ LoadPtr(X, DataTop(X.con[t], s)) # 0
    /\ LoadPtr(X, EntitiesTop(X.con[t], s)) # 0

\* the number of slots the top-level dense arrays of type t's container have
\* entries for: slots 0 .. MaxComponentChunks * chunkSize - 1
SlotCapacity(con, t) == MaxComponentChunks * con[t].chunkSize

\* C38: every component slot that addComponent assigns satisfies s >= 1 and
\* s / chunkSize < MaxComponentChunks, and the dense chunks that the calls and
\* forEach index for a slot are allocated: for the slot of every component of a
\* valid entity, for every dense position 1 .. aliveComponents, and for the
\* slot addComponent<T>(e) assigns when T's container already holds
\* MaxComponentChunks * chunkSize - 1 components.
SlotsStayInsideDenseArrays ==
    \A t \in CallerTypes :
        containers[t].componentSize # 0 =>
            /\ \A i \in 1 .. containers[t].aliveComponents :
                   SlotInAllocatedChunk(Machine(mem, current, containers), t, i)
            /\ \A h \in issued :
                   /\ (Valid(h) /\ Has(h, t)) =>
                          SlotInAllocatedChunk(Machine(mem, current, containers), t, Slot(h, t))
                   /\ (Valid(h) /\ ~Has(h, t)) =>
                          LET X == addComponent(
                                       Machine(mem, current,
                                               WithAliveComponents(containers, t,
                                                                   SlotCapacity(containers, t) - 1)),
                                       h, t)
                          IN  ~X.bad =>
                                  SlotInAllocatedChunk(X, t, ExistingHandle(X, IdOf(h), t).ret)

\* the value of the component of type t at address a in buffer m: its
\* sizeof(T) / 4 words
ValueAt(m, a, t) == [k \in 0 .. ((CompSize(t) \div WordBytes) - 1) |-> LoadWord(m, a + WordBytes * k)]

\* the address getComponent<T>(h) returns in buffer m with cursor cur and containers con
AddressOf(m, cur, con, h, t) == getComponent(Machine(m, cur, con), h, t).ret

\* the words a caller writes into a component
WrittenWords == {0, 1}

\* C39: the value last written to entity e's component of type T is the value
\* a later getComponent<T>(e) reads, as long as e keeps the component: no
\* newEntity, removeEntity, addComponent, removeComponent or getComponent call
\* on another entity changes it, and after any call no write to another
\* entity's component of the type changes it.  Stated for the runs that stay
\* inside the entity table, where it already fails.
ComponentValueIsKept ==
    [][(Stepped /\ \A e \in issued' : IdOf(e) >= 1 /\ IdOf(e) <= maxEntities) =>
          \A h \in issued : \A t \in CallerTypes :
              (/\ Valid(h) /\ Has(h, t)
               /\ IsEntityHandleValid(mem', h)
               /\ entityHasComponent(mem', containers', h, t)) =>
                  /\ (last'.op = "newEntity" \/ last'.h # h) =>
                         ValueAt(mem', AddressOf(mem', current', containers', h, t), t)
                             = ValueAt(mem, AddressOf(mem, current, containers, h, t), t)
                  /\ \A o \in issued \ {h} :
                         (/\ IsEntityHandleValid(mem', o)
                          /\ entityHasComponent(mem', containers', o, t)) =>
                             \A k \in 0 .. ((CompSize(t) \div WordBytes) - 1) :
                                 \A w \in WrittenWords :
                                     ValueAt(StoreWord(mem',
                                                 AddressOf(mem', current', containers', o, t)
                                                 + WordBytes * k, w),
                                             AddressOf(mem', current', containers', h, t), t)
                                         = ValueAt(mem', AddressOf(mem', current', containers', h, t), t)]_vars

====
